---- MODULE Spec2Model ----
(***************************************************************************)
(* Model of the parlay betting-pool economics scripts:                     *)
(*   src/lp_simulation.py           simulate_single_bet, run_simulation,   *)
(*                                  the __main__ recommendations           *)
(*   src/whale_attack_simulation.py simulate_whale_attack,                 *)
(*                                  simulate_lucky_streak,                 *)
(*                                  test_max_single_bet                    *)
(*                                                                         *)
(* Python floats are IEEE-754 binary64.  They are modelled exactly: a      *)
(* float is a record [s, m, e] standing for s * m * 2^e, where the         *)
(* magnitude m is an unbounded natural number held as a little-endian      *)
(* sequence of limbs in radix 2^15 (TLC integers are 32 bits wide), and    *)
(* every arithmetic operation rounds its exact result to 53 significant    *)
(* bits, ties to even.  The record is kept canonical (m odd, or zero), so  *)
(* equality of records is equality of values.  Overflow, underflow and     *)
(* subnormals are not modelled: every magnitude the scripts compute on the *)
(* inputs below lies between 2^-200 and 2^100.                             *)
(***************************************************************************)
EXTENDS Integers, Sequences, FiniteSets, TLC

\* ------------------------------------------------------------------------
\* Natural numbers of any size: little-endian limb sequences, radix 2^15
\* ------------------------------------------------------------------------
LimbBits == 15
Base == 2^LimbBits

RECURSIVE Norm(_)
Norm(a) ==
    IF a = <<>> THEN a
    ELSE IF a[Len(a)] = 0 THEN Norm(SubSeq(a, 1, Len(a) - 1))
    ELSE a

RECURSIVE BFromNat(_)
BFromNat(n) == IF n = 0 THEN <<>> ELSE <<n % Base>> \o BFromNat(n \div Base)

RECURSIVE BAddC(_, _, _)
BAddC(a, b, c) ==
    IF a = <<>> /\ b = <<>> THEN (IF c = 0 THEN <<>> ELSE <<c>>)
    ELSE LET x == IF a = <<>> THEN 0 ELSE Head(a)
             y == IF b = <<>> THEN 0 ELSE Head(b)
             t == x + y + c
         IN  <<t % Base>> \o BAddC(IF a = <<>> THEN a ELSE Tail(a),
                                   IF b = <<>> THEN b ELSE Tail(b),
                                   t \div Base)

BAdd(a, b) == Norm(BAddC(a, b, 0))

RECURSIVE BSubB(_, _, _)
BSubB(a, b, w) ==
    IF a = <<>> THEN <<>>
    ELSE LET y == IF b = <<>> THEN 0 ELSE Head(b)
             t == Head(a) - y - w
         IN  <<IF t < 0 THEN t + Base ELSE t>>
             \o BSubB(Tail(a), IF b = <<>> THEN b ELSE Tail(b),
                      IF t < 0 THEN 1 ELSE 0)

\* a - b for a >= b
BSub(a, b) == Norm(BSubB(a, b, 0))

RECURSIVE BCmpEq(_, _)
BCmpEq(a, b) ==
    IF a = <<>> THEN 0
    ELSE LET n == Len(a)
         IN  IF a[n] # b[n] THEN (IF a[n] < b[n] THEN 0 - 1 ELSE 1)
             ELSE BCmpEq(SubSeq(a, 1, n - 1), SubSeq(b, 1, n - 1))

\* -1, 0 or 1 as a < b, a = b, a > b (both normalised)
BCmp(a, b) ==
    IF Len(a) # Len(b) THEN (IF Len(a) < Len(b) THEN 0 - 1 ELSE 1)
    ELSE BCmpEq(a, b)

RECURSIVE BMulLimbC(_, _, _)
BMulLimbC(a, d, c) ==
    IF a = <<>> THEN (IF c = 0 THEN <<>> ELSE <<c>>)
    ELSE LET t == Head(a) * d + c
         IN  <<t % Base>> \o BMulLimbC(Tail(a), d, t \div Base)

RECURSIVE BMulR(_, _)
BMulR(a, b) ==
    IF b = <<>> THEN <<>>
    ELSE BAddC(BMulLimbC(a, Head(b), 0), <<0>> \o BMulR(a, Tail(b)), 0)

BMul(a, b) == IF a = <<>> \/ b = <<>> THEN <<>> ELSE Norm(BMulR(a, b))

\* a * 2^k
BShl(a, k) ==
    IF a = <<>> THEN <<>>
    ELSE [i \in 1..(k \div LimbBits) |-> 0] \o BMulLimbC(a, 2^(k % LimbBits), 0)

\* floor(a / 2^k)
BShr(a, k) ==
    LET q == k \div LimbBits
        P == 2^(k % LimbBits)
        b == IF q >= Len(a) THEN <<>> ELSE SubSeq(a, q + 1, Len(a))
        n == Len(b)
    IN  Norm([i \in 1..n |->
                (b[i] \div P)
                + (IF i < n THEN (b[i + 1] % P) * (Base \div P) ELSE 0)])

\* quotient and remainder of a by a single limb d (0 < d < Base)
RECURSIVE BDivLimb(_, _)
BDivLimb(a, d) ==
    IF a = <<>> THEN [q |-> <<>>, r |-> 0]
    ELSE LET hi == BDivLimb(Tail(a), d)
             t  == hi.r * Base + Head(a)
         IN  [q |-> <<t \div d>> \o hi.q, r |-> t % d]

BitLen(a) ==
    IF a = <<>> THEN 0
    ELSE LET top == a[Len(a)]
         IN  LimbBits * (Len(a) - 1)
             + (CHOOSE n \in 1..LimbBits : 2^(n - 1) <= top /\ top < 2^n)

\* number of trailing zero bits of a # 0
RECURSIVE TrailingZeros(_)
TrailingZeros(a) ==
    IF Head(a) = 0 THEN LimbBits + TrailingZeros(Tail(a))
    ELSE CHOOSE n \in 0..(LimbBits - 1) :
            Head(a) % 2^n = 0 /\ Head(a) % 2^(n + 1) # 0

\* ------------------------------------------------------------------------
\* IEEE-754 binary64 values and arithmetic (round to nearest, ties to even)
\* ------------------------------------------------------------------------
MantBits == 53

FZero == [s |-> 0, m |-> <<>>, e |-> 0]

Canon(s, m, e) ==
    IF m = <<>> THEN FZero
    ELSE LET z == TrailingZeros(m)
         IN  [s |-> s, m |-> BShr(m, z), e |-> e + z]

\* the float nearest to s * (m + f) * 2^e, where 0 <= f < 1 and f > 0 iff
\* sticky
Round(s, m, e, sticky) ==
    LET n == BitLen(m)
    IN  IF n <= MantBits THEN Canon(s, m, e)
        ELSE LET k    == n - MantBits
                 q    == BShr(m, k)
                 rem  == BSub(m, BShl(q, k))
                 half == BShl(<<1>>, k - 1)
                 c    == BCmp(rem, half)
                 up   == c > 0 \/ (c = 0 /\ (sticky \/ q[1] % 2 = 1))
             IN  Canon(s, IF up THEN BAdd(q, <<1>>) ELSE q, e + k)

\* int -> float
FromInt(n) ==
    IF n = 0 THEN FZero
    ELSE IF n < 0 THEN Canon(0 - 1, BFromNat(0 - n), 0)
    ELSE Canon(1, BFromNat(n), 0)

\* the float a decimal literal num/den denotes (num >= 0, 0 < den < Base)
LitShift == 75
Lit(num, den) ==
    LET d == BDivLimb(BShl(BFromNat(num), LitShift), den)
    IN  Round(1, Norm(d.q), 0 - LitShift, d.r # 0)

\* 2.0 ** n
Pow2F(n) == [s |-> 1, m |-> <<1>>, e |-> n]

FNeg(a) == [a EXCEPT !.s = 0 - a.s]

FMul(a, b) ==
    IF a.s = 0 \/ b.s = 0 THEN FZero
    ELSE Round(a.s * b.s, BMul(a.m, b.m), a.e + b.e, FALSE)

FAdd(a, b) ==
    IF a.s = 0 THEN b
    ELSE IF b.s = 0 THEN a
    ELSE LET e  == IF a.e < b.e THEN a.e ELSE b.e
             ma == BShl(a.m, a.e - e)
             mb == BShl(b.m, b.e - e)
             c  == BCmp(ma, mb)
         IN  IF a.s = b.s THEN Round(a.s, BAdd(ma, mb), e, FALSE)
             ELSE IF c = 0 THEN FZero
             ELSE IF c > 0 THEN Round(a.s, BSub(ma, mb), e, FALSE)
             ELSE Round(b.s, BSub(mb, ma), e, FALSE)

FSub(a, b) == FAdd(a, FNeg(b))

\* a < b, a <= b, a > b on floats
FLess(a, b) == FSub(a, b).s < 0
FLeq(a, b) == FSub(a, b).s <= 0
FGreater(a, b) == FLess(b, a)

\* ------------------------------------------------------------------------
\* Bounds of the model
\* ------------------------------------------------------------------------
\* run_simulation is called with num_rounds in -1..MaxRounds
MaxRounds == 3
\* simulate_single_bet is called with num_legs in -ExtraLegs..(10 + ExtraLegs)
ExtraLegs == 2
\* the two compared runs of SpecPair draw their leg counts from 1..PairLegs
PairLegs == 3

LegInputs == (0 - ExtraLegs)..(10 + ExtraLegs)
Stakes == {1, 3, 7, 100, 10000, 50000}
RoundInputs == (0 - 1)..MaxRounds

\* ------------------------------------------------------------------------
\* src/lp_simulation.py: constants
\* ------------------------------------------------------------------------
SEASON_POOL_SHARE == Lit(2, 100)
LP_SHARE_OF_PROTOCOL == Lit(53, 100)
PROTOCOL_SHARE_OF_REVENUE == Lit(45, 100)

\* PARLAY_MULTIPLIERS with the 2-leg bonus already granted to single-leg bets
PARLAY_MULTIPLIERS_shifted ==
    [l \in 1..10 |->
        CASE l = 1 -> Lit(115, 100)
          [] l = 2 -> Lit(115, 100)
          [] l = 3 -> Lit(1194, 1000)
          [] l = 4 -> Lit(1238, 1000)
          [] l = 5 -> Lit(1281, 1000)
          [] l = 6 -> Lit(1325, 1000)
          [] l = 7 -> Lit(1369, 1000)
          [] l = 8 -> Lit(1413, 1000)
          [] l = 9 -> Lit(1456, 1000)
          [] l = 10 -> Lit(15, 10)]

PARLAY_MULTIPLIERS ==
    [l \in 1..10 |->
        CASE l = 1 -> Lit(10, 10)
          [] l = 2 -> Lit(115, 100)
          [] l = 3 -> Lit(1194, 1000)
          [] l = 4 -> Lit(1238, 1000)
          [] l = 5 -> Lit(1281, 1000)
          [] l = 6 -> Lit(1325, 1000)
          [] l = 7 -> Lit(1369, 1000)
          [] l = 8 -> Lit(1413, 1000)
          [] l = 9 -> Lit(1456, 1000)
          [] l = 10 -> Lit(15, 10)]

\* dict.get(key, default)
DictGet(d, key, default) == IF key \in DOMAIN d THEN d[key] ELSE default

\* The values user_wins = random.random() < (1/3) ** num_legs can take:
\* random() lies in [0, 1) and can be 0.0, so a win is always possible;
\* a loss needs (1/3) ** num_legs < 1, that is num_legs >= 1.
WinOutcomes(legs) == IF legs >= 1 THEN {TRUE, FALSE} ELSE {TRUE}

\* simulate_single_bet returning the stake as base payout of a losing bet
simulate_single_bet_refund(legs, stk, wins) ==
    IF ~wins
    THEN [raised |-> "none", won |-> FALSE, base_payout |-> FromInt(stk),
          final_payout |-> FZero, parlay_bonus |-> FZero]
    ELSE LET base_payout       == FMul(FromInt(stk), Pow2F(legs))
             parlay_multiplier == DictGet(PARLAY_MULTIPLIERS, legs, Lit(15, 10))
         IN  [raised |-> "none", won |-> TRUE, base_payout |-> base_payout,
              final_payout |-> FMul(base_payout, parlay_multiplier),
              parlay_bonus |-> FMul(base_payout,
                                    FSub(parlay_multiplier, Lit(10, 10)))]

\* simulate_single_bet(num_legs, stake), user_wins being the result of the
\* draw.  The function has no raise statement: raised is always "none".
simulate_single_bet(legs, stk, wins) ==
    IF ~wins
    THEN [raised |-> "none", won |-> FALSE, base_payout |-> FZero,
          final_payout |-> FZero, parlay_bonus |-> FZero]
    ELSE LET base_multiplier   == Pow2F(legs)
             base_payout       == FMul(FromInt(stk), base_multiplier)
             parlay_multiplier == DictGet(PARLAY_MULTIPLIERS, legs, Lit(15, 10))
             final_payout      == FMul(base_payout, parlay_multiplier)
             parlay_bonus      == FMul(base_payout,
                                       FSub(parlay_multiplier, Lit(10, 10)))
         IN  [raised |-> "none", won |-> TRUE, base_payout |-> base_payout,
              final_payout |-> final_payout, parlay_bonus |-> parlay_bonus]

\* weights of random.choices(range(1, 11), weights=weights)
weights == <<5, 15, 20, 18, 15, 10, 8, 5, 3, 1>>
LegChoices == {l \in 1..10 : weights[l] > 0}

\* stake = 100 in the loop of run_simulation
RoundStake == 100

\* derive_pnl with the reserve bonus charged to the LPs
derive_pnl_lp_pays(stakes, payouts, bonus, pool_revenue) ==
    LET user_pnl     == FSub(payouts, FromInt(stakes))
        net_revenue  == FSub(FromInt(pool_revenue), FSub(payouts, bonus))
        protocol_revenue_share == FMul(net_revenue, PROTOCOL_SHARE_OF_REVENUE)
        lp_revenue_share       == FMul(net_revenue, LP_SHARE_OF_PROTOCOL)
        season_revenue_share   == FMul(net_revenue, SEASON_POOL_SHARE)
    IN  [user_pnl |-> user_pnl,
         net_revenue |-> net_revenue,
         protocol_revenue_share |-> protocol_revenue_share,
         lp_revenue_share |-> lp_revenue_share,
         season_revenue_share |-> season_revenue_share,
         lp_pnl |-> FSub(lp_revenue_share, bonus),
         protocol_pnl |-> protocol_revenue_share]

\* lines 102-116 of run_simulation
derive_pnl(stakes, payouts, bonus, pool_revenue) ==
    LET user_pnl     == FSub(payouts, FromInt(stakes))
        net_revenue  == FSub(FromInt(pool_revenue), FSub(payouts, bonus))
        protocol_revenue_share == FMul(net_revenue, PROTOCOL_SHARE_OF_REVENUE)
        lp_revenue_share       == FMul(net_revenue, LP_SHARE_OF_PROTOCOL)
        season_revenue_share   == FMul(net_revenue, SEASON_POOL_SHARE)
    IN  [user_pnl |-> user_pnl,
         net_revenue |-> net_revenue,
         protocol_revenue_share |-> protocol_revenue_share,
         lp_revenue_share |-> lp_revenue_share,
         season_revenue_share |-> season_revenue_share,
         lp_pnl |-> lp_revenue_share,
         protocol_pnl |-> FSub(protocol_revenue_share, bonus)]

\* line 196 of __main__: the condition of recommendation 2
lp_share_warning(res) == FLess(res.lp_pnl, FMul(res.user_pnl, Lit(1, 10)))

\* line 190 of __main__: the condition of recommendation 1
payout_caps_warning(res) == FLess(res.protocol_pnl, FZero)

\* ------------------------------------------------------------------------
\* src/whale_attack_simulation.py: constants and scenario computations
\* ------------------------------------------------------------------------
CircuitBreaker == 9000

\* the [CRITICAL] / [OK] branch shared by the three scenarios
breaker_check(bonus) ==
    IF FGreater(bonus, FromInt(CircuitBreaker))
    THEN [critical |-> TRUE, shortage |-> FSub(bonus, FromInt(CircuitBreaker))]
    ELSE [critical |-> FALSE, shortage |-> FZero]

WhaleStake == 10000
WhaleBets == 100
WhaleLegs == 10
WhaleMultiplier == Lit(15, 10)

\* final_payout of one winning whale bet (lines 44-48)
whale_final_payout ==
    FMul(FMul(FromInt(WhaleStake), Pow2F(WhaleLegs)), WhaleMultiplier)

\* whale_parlay_bonus taking the whole final payout as the bonus
whale_parlay_bonus_whole ==
    LET base_payout == FMul(FromInt(WhaleStake), Pow2F(WhaleLegs))
    IN  FMul(base_payout, WhaleMultiplier)

\* parlay_bonus of one iteration of the loop of lines 56-59
whale_parlay_bonus ==
    LET base_payout == FMul(FromInt(WhaleStake), Pow2F(WhaleLegs))
    IN  FMul(base_payout, FSub(WhaleMultiplier, Lit(10, 10)))

LuckyStake == 1000
LuckyWinners == 10
LuckyLegs == 10

simulate_lucky_streak ==
    LET parlay_multiplier == Lit(15, 10)
        base_payout  == FMul(FromInt(LuckyStake), Pow2F(LuckyLegs))
        final_payout == FMul(base_payout, parlay_multiplier)
        parlay_bonus == FMul(base_payout, FSub(parlay_multiplier, Lit(10, 10)))
        total_bonus  == FMul(parlay_bonus, FromInt(LuckyWinners))
    IN  [total_payout |-> FMul(final_payout, FromInt(LuckyWinners)),
         total_bonus |-> total_bonus,
         check |-> breaker_check(total_bonus)]

MaxStake == 50000
MaxBetLegs == 10

\* test_max_single_bet run at the whale scenario's stake
test_max_single_bet_whale_stake ==
    LET parlay_multiplier == Lit(15, 10)
        base_payout  == FMul(FromInt(WhaleStake), Pow2F(MaxBetLegs))
        final_payout == FMul(base_payout, parlay_multiplier)
        parlay_bonus == FMul(base_payout, FSub(parlay_multiplier, Lit(10, 10)))
    IN  [base_payout |-> base_payout, final_payout |-> final_payout,
         parlay_bonus |-> parlay_bonus, check |-> breaker_check(parlay_bonus)]

test_max_single_bet ==
    LET parlay_multiplier == Lit(15, 10)
        base_payout  == FMul(FromInt(MaxStake), Pow2F(MaxBetLegs))
        final_payout == FMul(base_payout, parlay_multiplier)
        parlay_bonus == FMul(base_payout, FSub(parlay_multiplier, Lit(10, 10)))
    IN  [base_payout |-> base_payout, final_payout |-> final_payout,
         parlay_bonus |-> parlay_bonus, check |-> breaker_check(parlay_bonus)]

\* ------------------------------------------------------------------------
\* State
\* ------------------------------------------------------------------------
VARIABLES
    pc,                         \* position of the running script
    num_legs, stake, ret,       \* a direct call of simulate_single_bet
    num_rounds,                 \* argument of run_simulation
    rounds_done,                \* iterations of its loop completed
    total_user_stakes, total_user_payouts,
    total_protocol_bonus_paid, total_pool_revenue, user_wins,
    sum_base,                   \* history: sum of base payouts of the wins
    pnl,                        \* the values derived in lines 102-116
    outcome,                    \* how run_simulation ended
    results,                    \* the dictionary it returned
    recs,                       \* recommendations printed by __main__
    prev,                       \* what an earlier run ended with
    whale_bets, num_wins, total_won,
    bonus_iters, parlay_bonus_total,
    whale_results, lucky_streak_bonus, max_bet_bonus

betVars == <<num_legs, stake, ret>>
accVars == <<rounds_done, total_user_stakes, total_user_payouts,
             total_protocol_bonus_paid, total_pool_revenue, user_wins,
             sum_base>>
runVars == <<num_rounds, accVars, pnl, outcome, results, recs, prev>>
whaleVars == <<whale_bets, num_wins, total_won, bonus_iters,
               parlay_bonus_total, whale_results,
               lucky_streak_bonus, max_bet_bonus>>
vars == <<pc, betVars, runVars, whaleVars>>

None == [none |-> TRUE]

BetIdle == num_legs = 0 /\ stake = 0 /\ ret = None

RunIdle ==
    /\ num_rounds = 0 /\ rounds_done = 0
    /\ total_user_stakes = 0 /\ total_user_payouts = FZero
    /\ total_protocol_bonus_paid = FZero /\ total_pool_revenue = 0
    /\ user_wins = 0 /\ sum_base = 0
    /\ pnl = None /\ outcome = "none" /\ results = None /\ recs = None
    /\ prev = None

WhaleIdle ==
    /\ whale_bets = 0 /\ num_wins = 0 /\ total_won = FZero
    /\ bonus_iters = 0 /\ parlay_bonus_total = FZero
    /\ whale_results = None /\ lucky_streak_bonus = None
    /\ max_bet_bonus = None

\* ------------------------------------------------------------------------
\* simulate_single_bet called on its own
\* ------------------------------------------------------------------------
InitBet ==
    /\ pc = "bet"
    /\ num_legs \in LegInputs /\ stake \in Stakes /\ ret = None
    /\ RunIdle /\ WhaleIdle

BetCall ==
    /\ pc = "bet"
    /\ \E wins \in WinOutcomes(num_legs) :
            ret' = simulate_single_bet(num_legs, stake, wins)
    /\ pc' = "bet_done"
    /\ UNCHANGED <<num_legs, stake, runVars, whaleVars>>

NextBet == BetCall

SpecBet == InitBet /\ [][NextBet]_vars

\* ------------------------------------------------------------------------
\* run_simulation and the __main__ block of lp_simulation.py
\* ------------------------------------------------------------------------
InitRun == pc = "start" /\ BetIdle /\ RunIdle /\ WhaleIdle

\* entry of run_simulation: lines 76-81
StartRun ==
    /\ pc = "start"
    /\ num_rounds' \in RoundInputs
    /\ rounds_done' = 0
    /\ total_user_stakes' = 0 /\ total_user_payouts' = FZero
    /\ total_protocol_bonus_paid' = FZero /\ total_pool_revenue' = 0
    /\ user_wins' = 0 /\ sum_base' = 0
    /\ pc' = "loop"
    /\ UNCHANGED <<betVars, pnl, outcome, results, recs, prev, whaleVars>>

\* one iteration of the loop, lines 83-99, leg counts drawn from S
Trial(S) ==
    /\ pc = "loop"
    /\ rounds_done < num_rounds
    /\ \E legs \in S : \E wins \in WinOutcomes(legs) :
        LET r == simulate_single_bet(legs, RoundStake, wins)
        IN  /\ total_user_stakes' = total_user_stakes + RoundStake
            /\ IF r.won
               THEN /\ user_wins' = user_wins + 1
                    /\ total_user_payouts' =
                            FAdd(total_user_payouts, r.final_payout)
                    /\ total_protocol_bonus_paid' =
                            FAdd(total_protocol_bonus_paid, r.parlay_bonus)
                    /\ total_pool_revenue' = total_pool_revenue
                    /\ sum_base' = sum_base + RoundStake * 2^legs
               ELSE /\ total_pool_revenue' = total_pool_revenue + RoundStake
                    /\ UNCHANGED <<user_wins, total_user_payouts,
                                   total_protocol_bonus_paid, sum_base>>
    /\ rounds_done' = rounds_done + 1
    /\ UNCHANGED <<pc, betVars, num_rounds, pnl, outcome, results, recs, prev,
                   whaleVars>>

\* the loop is over: lines 102-116
Derive ==
    /\ pc = "loop"
    /\ rounds_done >= num_rounds
    /\ pnl' = derive_pnl(total_user_stakes, total_user_payouts,
                         total_protocol_bonus_paid, total_pool_revenue)
    /\ pc' = "report"
    /\ UNCHANGED <<betVars, num_rounds, accVars, outcome, results, recs, prev,
                   whaleVars>>

\* lines 119-179: the report divides by total_user_stakes (line 126) and by
\* num_rounds (lines 127, 178); an int division by zero raises
\* ZeroDivisionError, which nothing catches, so the script ends there.
Report ==
    /\ pc = "report"
    /\ IF total_user_stakes = 0 \/ num_rounds = 0
       THEN /\ outcome' = "ZeroDivisionError"
            /\ results' = results
            /\ pc' = "done"
       ELSE /\ outcome' = "returned"
            /\ results' = [user_pnl |-> pnl.user_pnl,
                           protocol_pnl |-> pnl.protocol_pnl,
                           lp_pnl |-> pnl.lp_pnl,
                           total_protocol_bonus |-> total_protocol_bonus_paid,
                           user_win_rate |-> Lit(user_wins, num_rounds)]
            /\ pc' = "main"
    /\ UNCHANGED <<betVars, num_rounds, accVars, pnl, recs, prev, whaleVars>>

\* lines 186-199 of __main__
Recommend ==
    /\ pc = "main"
    /\ recs' = [add_payout_caps |-> payout_caps_warning(results),
                increase_lp_share |-> lp_share_warning(results)]
    /\ pc' = "done"
    /\ UNCHANGED <<betVars, num_rounds, accVars, pnl, outcome, results, prev,
                   whaleVars>>

NextRun == StartRun \/ Trial(LegChoices) \/ Derive \/ Report \/ Recommend

SpecRun == InitRun /\ [][NextRun]_vars

\* Two runs, one after the other: the script is run again after a run that
\* returned, and what that run ended with is kept for comparison.
Rerun ==
    /\ pc = "done"
    /\ outcome = "returned"
    /\ prev = None
    /\ prev' = [net_revenue |-> pnl.net_revenue, lp_pnl |-> pnl.lp_pnl,
                protocol_pnl |-> pnl.protocol_pnl,
                total_protocol_bonus_paid |-> total_protocol_bonus_paid]
    /\ pnl' = None /\ outcome' = "none" /\ results' = None /\ recs' = None
    /\ pc' = "start"
    /\ UNCHANGED <<betVars, num_rounds, accVars, whaleVars>>

NextPair ==
    StartRun \/ Trial(1..PairLegs) \/ Derive \/ Report \/ Recommend \/ Rerun

SpecPair == InitRun /\ [][NextPair]_vars

\* ------------------------------------------------------------------------
\* the __main__ block of whale_attack_simulation.py
\* ------------------------------------------------------------------------
InitWhale == pc = "whale_loop" /\ BetIdle /\ RunIdle /\ WhaleIdle

\* one iteration of the loop of lines 40-51
WhaleBet ==
    /\ pc = "whale_loop"
    /\ whale_bets < WhaleBets
    /\ \E wins \in WinOutcomes(WhaleLegs) :
        IF wins
        THEN /\ total_won' = FAdd(total_won, whale_final_payout)
             /\ num_wins' = num_wins + 1
        ELSE UNCHANGED <<total_won, num_wins>>
    /\ whale_bets' = whale_bets + 1
    /\ UNCHANGED <<pc, betVars, runVars, bonus_iters, parlay_bonus_total,
                   whale_results, lucky_streak_bonus, max_bet_bonus>>

\* one iteration of the loop of lines 55-59, entered when the bets are over
WhaleBonus ==
    /\ pc = "whale_loop"
    /\ whale_bets >= WhaleBets
    /\ num_wins > 0
    /\ bonus_iters < num_wins
    /\ parlay_bonus_total' = FAdd(parlay_bonus_total, whale_parlay_bonus)
    /\ bonus_iters' = bonus_iters + 1
    /\ UNCHANGED <<pc, betVars, runVars, whale_bets, num_wins, total_won,
                   whale_results, lucky_streak_bonus, max_bet_bonus>>

\* lines 61-83: the circuit-breaker check and the return
WhaleImpact ==
    /\ pc = "whale_loop"
    /\ whale_bets >= WhaleBets
    /\ ~(num_wins > 0 /\ bonus_iters < num_wins)
    /\ whale_results' =
            [total_staked |-> WhaleStake * WhaleBets,
             total_won |-> total_won,
             num_wins |-> num_wins,
             parlay_bonus |-> parlay_bonus_total,
             check |-> breaker_check(parlay_bonus_total)]
    /\ pc' = "lucky"
    /\ UNCHANGED <<betVars, runVars, whale_bets, num_wins, total_won,
                   bonus_iters, parlay_bonus_total, lucky_streak_bonus,
                   max_bet_bonus>>

LuckyStreak ==
    /\ pc = "lucky"
    /\ lucky_streak_bonus' = simulate_lucky_streak
    /\ pc' = "max_bet"
    /\ UNCHANGED <<betVars, runVars, whale_bets, num_wins, total_won,
                   bonus_iters, parlay_bonus_total, whale_results,
                   max_bet_bonus>>

MaxSingleBet ==
    /\ pc = "max_bet"
    /\ max_bet_bonus' = test_max_single_bet
    /\ pc' = "whale_done"
    /\ UNCHANGED <<betVars, runVars, whale_bets, num_wins, total_won,
                   bonus_iters, parlay_bonus_total, whale_results,
                   lucky_streak_bonus>>

NextWhale == WhaleBet \/ WhaleBonus \/ WhaleImpact \/ LuckyStreak \/ MaxSingleBet

SpecWhale == InitWhale /\ [][NextWhale]_vars

\* ------------------------------------------------------------------------
\* Properties
\* ------------------------------------------------------------------------

\* C1: a winning call of simulate_single_bet with a leg count in 1..10
\* returns basePayout = stake * 2^legCount, finalPayout = basePayout *
\* PARLAY_MULTIPLIERS[legCount] and reserveBonus = finalPayout - basePayout
\* exactly.
C1_WinningPayoutExact ==
    (pc = "bet_done" /\ ret.won /\ num_legs \in 1..10) =>
        /\ ret.base_payout = FromInt(stake * 2^num_legs)
        /\ ret.final_payout =
                FMul(ret.base_payout, PARLAY_MULTIPLIERS[num_legs])
        /\ ret.parlay_bonus = FSub(ret.final_payout, ret.base_payout)

\* C2: a call of simulate_single_bet with a leg count of 0 or less ends in
\* the InvalidParameter error and returns no winning or losing outcome.
C2_RejectsNonPositiveLegs ==
    (pc = "bet_done" /\ num_legs <= 0) => ret.raised = "InvalidParameter"

\* C3: run_simulation called with num_rounds <= 0 runs no trial, derives no
\* P&L and fails with InvalidParameter, not with another failure or a result.
C3_RejectsNonPositiveRounds ==
    (pc = "done" /\ num_rounds <= 0) =>
        /\ outcome = "InvalidParameter"
        /\ rounds_done = 0
        /\ pnl = None

\* C4: two completed runs with equal net revenue have equal LP P&L, whatever
\* their reserve bonus totals are.
C4_LpPnlIndependentOfBonus ==
    (outcome = "returned" /\ prev # None
        /\ pnl.net_revenue = prev.net_revenue)
    => pnl.lp_pnl = prev.lp_pnl

C4_Witness ==
    /\ outcome = "returned" /\ prev # None
    /\ pnl.net_revenue = prev.net_revenue
    /\ total_protocol_bonus_paid # prev.total_protocol_bonus_paid
    /\ pnl.protocol_pnl # prev.protocol_pnl
    /\ pnl.lp_pnl = prev.lp_pnl

\* C5: the "increase LP share" warning is raised only for a run with
\* userPnL > 0 and lpPnL < userPnL * 0.10; with userPnL <= 0 it is not raised.
C5_WarningOnlyForPositiveUserPnl ==
    (pc = "done" /\ outcome = "returned" /\ recs.increase_lp_share) =>
        /\ FGreater(results.user_pnl, FZero)
        /\ FLess(results.lp_pnl, FMul(results.user_pnl, Lit(1, 10)))

\* C6: the whale scenario's reserve bonus total is numWins * 5,120,000; with
\* at least one win it exceeds 9,000 and the breach is flagged with shortfall
\* total - 9,000; with no win the total is 0 and no breach is flagged.
C6_WhaleBonusAndBreach ==
    (whale_results # None) =>
        LET r == whale_results
        IN  /\ r.num_wins \in 0..WhaleBets
            /\ r.parlay_bonus = FromInt(r.num_wins * 5120000)
            /\ r.num_wins >= 1 =>
                    /\ FGreater(r.parlay_bonus, FromInt(9000))
                    /\ r.check.critical
                    /\ r.check.shortage =
                            FromInt(r.num_wins * 5120000 - 9000)
            /\ r.num_wins = 0 =>
                    /\ r.parlay_bonus = FZero
                    /\ ~r.check.critical

C6_Witness ==
    /\ whale_results # None
    /\ whale_results.num_wins = 2
    /\ whale_results.check.critical
    /\ whale_results.parlay_bonus = FromInt(10240000)

\* C7: the single maximum-bet scenario yields basePayout 51,200,000,
\* finalPayout 76,800,000 and reserveBonus 25,600,000, flagged critical
\* against the 9,000 threshold, and the bonus is the one simulate_single_bet
\* returns for a winning bet of the same stake and leg count.
C7_MaxSingleBet ==
    (max_bet_bonus # None) =>
        /\ max_bet_bonus.base_payout = FromInt(51200000)
        /\ max_bet_bonus.final_payout = FromInt(76800000)
        /\ max_bet_bonus.parlay_bonus = FromInt(25600000)
        /\ max_bet_bonus.check.critical
        /\ max_bet_bonus.parlay_bonus =
                simulate_single_bet(10, 50000, TRUE).parlay_bonus

C7_Witness ==
    /\ pc = "whale_done"
    /\ max_bet_bonus # None
    /\ max_bet_bonus.check.critical
    /\ max_bet_bonus.check.shortage = FromInt(25600000 - 9000)

\* C8: a losing call of simulate_single_bet with a leg count in 1..10
\* returns won = false and basePayout = finalPayout = reserveBonus = 0,
\* whatever the stake.
C8_LosingBetAllZero ==
    (pc = "bet_done" /\ num_legs \in 1..10 /\ ~ret.won) =>
        /\ ret.base_payout = FZero
        /\ ret.final_payout = FZero
        /\ ret.parlay_bonus = FZero

C8_Witness ==
    /\ pc = "bet_done" /\ ~ret.won
    /\ num_legs = 10 /\ stake = 50000
    /\ ret.base_payout = FZero

\* C9: the multiplier table is non-decreasing over 1..10 with multiplier(1) =
\* 1.0, so a winning single-leg bet has reserveBonus = 0 and a winning bet of
\* any leg count in 1..10 has reserveBonus >= 0 and finalPayout >= basePayout.
C9_MultipliersMonotone ==
    /\ PARLAY_MULTIPLIERS[1] = FromInt(1)
    /\ \A l \in 1..9 : FLeq(PARLAY_MULTIPLIERS[l], PARLAY_MULTIPLIERS[l + 1])
    /\ (pc = "bet_done" /\ num_legs \in 1..10 /\ ret.won) =>
            /\ num_legs = 1 => ret.parlay_bonus = FZero
            /\ FLeq(FZero, ret.parlay_bonus)
            /\ FLeq(ret.base_payout, ret.final_payout)

C9_Witness ==
    /\ pc = "bet_done" /\ ret.won
    /\ num_legs = 1 /\ stake = 100
    /\ ret.parlay_bonus = FZero
    /\ ret.final_payout = FromInt(200)

\* C10: after k trials totalStaked = s * k, totalLosingPoolRevenue =
\* s * (k - winCount) and winCount <= k; each trial adds s to totalStaked, a
\* win adds only to totalPaidOut and totalReserveBonusPaid, a loss adds s
\* only to totalLosingPoolRevenue; the loop ends after exactly roundCount
\* trials, and totalPaidOut - totalReserveBonusPaid then equals the sum of
\* the base payouts of the winning trials.
C10_Accumulated ==
    (pc \in {"loop", "report", "main", "done"}) =>
        /\ rounds_done >= 0
        /\ num_rounds >= 0 => rounds_done <= num_rounds
        /\ total_user_stakes = RoundStake * rounds_done
        /\ total_pool_revenue = RoundStake * (rounds_done - user_wins)
        /\ user_wins <= rounds_done
        /\ (pc # "loop" /\ num_rounds >= 0) =>
                /\ rounds_done = num_rounds
                /\ FSub(total_user_payouts, total_protocol_bonus_paid)
                        = FromInt(sum_base)

C10_TrialStep ==
    (rounds_done' # rounds_done /\ pc = "loop") =>
        /\ rounds_done' = rounds_done + 1
        /\ total_user_stakes' = total_user_stakes + RoundStake
        /\ \/ /\ user_wins' = user_wins + 1
              /\ total_pool_revenue' = total_pool_revenue
              /\ FLeq(total_user_payouts, total_user_payouts')
              /\ FLeq(total_protocol_bonus_paid, total_protocol_bonus_paid')
           \/ /\ user_wins' = user_wins
              /\ total_pool_revenue' = total_pool_revenue + RoundStake
              /\ total_user_payouts' = total_user_payouts
              /\ total_protocol_bonus_paid' = total_protocol_bonus_paid

C10_AccumulatorInvariant == [](C10_Accumulated) /\ [][C10_TrialStep]_vars

====
